---- MODULE Spec2Model ----
(***************************************************************************)
(* A model of src/windows/sid.rs: the Sid value type (an owned byte        *)
(* buffer), its construction from a raw PSID, its parsing and formatting   *)
(* through the Win32 conversion routines, its account lookup and its       *)
(* derived equality, ordering and hash.                                    *)
(*                                                                         *)
(* Every operation of the file is one action.  The operation itself is an  *)
(* operator from its arguments and the platform's answers to a record of   *)
(* its outcome, the value it returns and the platform calls it made, in    *)
(* order.  The platform's answers are inputs: under Spec any answer is     *)
(* possible, under SpecDocumented the platform answers as documented.      *)
(***************************************************************************)
EXTENDS Integers, Sequences, FiniteSets, TLC

VARIABLES sids, last

vars == <<sids, last>>

(***************************************************************************)
(* Bounds of the model.                                                    *)
(***************************************************************************)
\* How many Sid values are alive at once.
MaxSids == 3
\* The longest name or domain buffer the account lookup asks for.
MaxNameLen == 2

(***************************************************************************)
(* Text.  A str is a sequence of characters; a wide string is a sequence   *)
(* of UTF-16 code units.                                                   *)
(***************************************************************************)
AlphabetChars ==
    <<"S", "-", "0", "1", "2", "3", "4", "5", "6", "7", "8", "9",
      "n", "o", "t", "a", "s", "i", "d">>

AlphabetCodes ==
    <<83, 45, 48, 49, 50, 51, 52, 53, 54, 55, 56, 57,
      110, 111, 116, 97, 115, 105, 100>>

Digits == <<"0", "1", "2", "3", "4", "5", "6", "7", "8", "9">>

IndexIn(seq, x) == CHOOSE i \in 1..Len(seq) : seq[i] = x

\* str::encode_utf16: one code unit per character (all of them in the BMP).
encode_utf16(s) == [i \in 1..Len(s) |-> AlphabetCodes[IndexIn(AlphabetChars, s[i])]]

\* The wide characters before the first NUL, as the platform and to_utf8_str
\* read a PCWSTR/PWSTR.
RECURSIVE UntilNul(_)
UntilNul(w) ==
    IF w = <<>> \/ Head(w) = 0 THEN <<>> ELSE <<Head(w)>> \o UntilNul(Tail(w))

\* crate::sys::utils::to_utf8_str: the text of a NUL-terminated wide string.
to_utf8_str(w) ==
    LET u == UntilNul(w)
    IN  [i \in 1..Len(u) |-> AlphabetChars[IndexIn(AlphabetCodes, u[i])]]

(***************************************************************************)
(* The documented platform: the SID structure (winnt.h SID: Revision,      *)
(* SubAuthorityCount, IdentifierAuthority[6] big-endian, SubAuthority[n]   *)
(* little-endian DWORDs) and its string form "S-1-" authority 1*("-" sub). *)
(***************************************************************************)
IsDigit(c) == \E i \in 1..10 : Digits[i] = c

DigitVal(c) == IndexIn(Digits, c) - 1

RECURSIVE DecValue(_)
DecValue(tok) ==
    IF tok = <<>> THEN 0
    ELSE DecValue(SubSeq(tok, 1, Len(tok) - 1)) * 10 + DigitVal(tok[Len(tok)])

RECURSIVE DecChars(_)
DecChars(n) ==
    IF n < 10 THEN <<Digits[n + 1]>>
    ELSE DecChars(n \div 10) \o <<Digits[(n % 10) + 1]>>

IsNumber(tok) == Len(tok) >= 1 /\ \A i \in 1..Len(tok) : IsDigit(tok[i])

\* The tokens of a string between its dashes.
RECURSIVE Split(_)
Split(s) ==
    IF \A i \in 1..Len(s) : s[i] # "-" THEN <<s>>
    ELSE LET k == CHOOSE i \in 1..Len(s) :
                      s[i] = "-" /\ \A j \in 1..(i - 1) : s[j] # "-"
         IN  <<SubSeq(s, 1, k - 1)>> \o Split(SubSeq(s, k + 1, Len(s)))

BigEndian6(v) ==
    <<0, 0, (v \div 16777216) % 256, (v \div 65536) % 256, (v \div 256) % 256, v % 256>>

LittleEndian4(v) ==
    <<v % 256, (v \div 256) % 256, (v \div 65536) % 256, (v \div 16777216) % 256>>

FromBigEndian6(b) == b[3] * 16777216 + b[4] * 65536 + b[5] * 256 + b[6]

FromLittleEndian4(b) == b[1] + b[2] * 256 + b[3] * 65536 + b[4] * 16777216

RECURSIVE SubAuthorityBytes(_)
SubAuthorityBytes(toks) ==
    IF toks = <<>> THEN <<>>
    ELSE LittleEndian4(DecValue(Head(toks))) \o SubAuthorityBytes(Tail(toks))

RECURSIVE SubAuthorityChars(_)
SubAuthorityChars(b) ==
    IF b = <<>> THEN <<>>
    ELSE <<"-">> \o DecChars(FromLittleEndian4(SubSeq(b, 1, 4)))
         \o SubAuthorityChars(SubSeq(b, 5, Len(b)))

\* IsValidSid as documented: revision 1, at most 15 sub-authorities, and the
\* structure as long as its count says.
DocIsValidSid(mem) ==
    /\ Len(mem) >= 8
    /\ mem[1] = 1
    /\ mem[2] <= 15
    /\ Len(mem) = 8 + 4 * mem[2]

\* GetLengthSid as documented: 8 + 4 * SubAuthorityCount.
DocGetLengthSid(mem) == IF Len(mem) >= 2 THEN 8 + 4 * mem[2] ELSE 0

\* ConvertStringSidToSidW as documented: the structure of a well-formed string,
\* or failure.
DocConvertStringSidToSidW(wide) ==
    LET toks == Split(to_utf8_str(wide))
        good == /\ Len(toks) >= 4
                /\ Len(toks) <= 18
                /\ toks[1] = <<"S">>
                /\ toks[2] = <<"1">>
                /\ \A i \in 3..Len(toks) : IsNumber(toks[i])
    IN  IF good
        THEN [ok |-> TRUE,
              mem |-> <<1, Len(toks) - 3>> \o BigEndian6(DecValue(toks[3]))
                      \o SubAuthorityBytes(SubSeq(toks, 4, Len(toks)))]
        ELSE [ok |-> FALSE, mem |-> <<>>]

\* ConvertSidToStringSidW as documented: the NUL-terminated wide string of a
\* valid structure, or failure.
DocConvertSidToStringSidW(mem) ==
    IF DocIsValidSid(mem)
    THEN [ok |-> TRUE,
          wide |-> encode_utf16(<<"S", "-">> \o DecChars(mem[1]) \o <<"-">>
                                \o DecChars(FromBigEndian6(SubSeq(mem, 3, 8)))
                                \o SubAuthorityChars(SubSeq(mem, 9, Len(mem))))
                   \o <<0>>]
    ELSE [ok |-> FALSE, wide |-> <<>>]

(***************************************************************************)
(* The platform as the code sees it.  env is the platform of one           *)
(* operation: the documented one, or a script of the answers it gives.     *)
(* A handle (PSID) is null or points to native memory, mem.                *)
(***************************************************************************)
NullPsid == [null |-> TRUE, mem |-> <<>>]

PsidTo(mem) == [null |-> FALSE, mem |-> mem]

Min(a, b) == IF a <= b THEN a ELSE b

IsValidSid(env, psid) ==
    IF env.documented THEN DocIsValidSid(psid.mem) ELSE env.valid

GetLengthSid(env, psid) ==
    IF env.documented THEN DocGetLengthSid(psid.mem) ELSE env.length

\* CopySid(nDestinationSidLength, pDestinationSid, pSourceSid): on success the
\* source's bytes are in the destination buffer, which keeps its length.
CopySid(env, length, dest, psid) ==
    LET ok == IF env.documented
              THEN length >= DocGetLengthSid(psid.mem)
              ELSE env.copyOk
        n  == Min(Min(length, Len(dest)), Len(psid.mem))
    IN  [ok  |-> ok,
         dest |-> IF ok
                  THEN [i \in 1..Len(dest) |-> IF i <= n THEN psid.mem[i] ELSE dest[i]]
                  ELSE dest]

ConvertStringSidToSidW(env, wide) ==
    IF env.documented THEN DocConvertStringSidToSidW(wide) ELSE env.conv

ConvertSidToStringSidW(env, mem) ==
    IF env.documented THEN DocConvertSidToStringSidW(mem) ELSE env.str

\* The wide string the account lookup leaves in a buffer of n units.
AccountWide(n, unit) == [i \in 1..n |-> IF i < n THEN unit ELSE 0]

\* LookupAccountSidW with buffers of nameBuf and domainBuf units: the probe
\* (no buffers) reports the lengths it needs, the fill writes the buffers.
LookupAccountSidW(env, nameBuf, domainBuf, fill) ==
    IF fill
    THEN [result    |-> IF env.fillOk THEN "ok" ELSE "other",
          nameLen   |-> nameBuf,
          domainLen |-> IF env.fillOk THEN env.fillDomainLen ELSE domainBuf,
          name      |-> AccountWide(nameBuf, 97),
          domain    |-> AccountWide(domainBuf, 100)]
    ELSE [result    |-> env.probe,
          nameLen   |-> env.nameLen,
          domainLen |-> env.domainLen,
          name      |-> <<>>,
          domain    |-> <<>>]

(***************************************************************************)
(* Sid::from_psid                                                          *)
(***************************************************************************)
\* A buffer one byte short of the structure.
ZeroBufferShort(length) == [i \in 1..(length - 1) |-> 0]

\* vec![0; length as usize]
ZeroBuffer(length) == [i \in 1..length |-> 0]

\* No revision check at all.
RevisionNotAsserted(sid) == TRUE

\* assert_eq!(sid[0], 1, ...): passes; otherwise (also when sid[0] is out of
\* bounds) the operation panics.
RevisionAsserted(sid) == Len(sid) >= 1 /\ sid[1] = 1

NoSid(outcome, calls) == [outcome |-> outcome, sid |-> <<>>, calls |-> calls]

\* The revision is asserted before the copy's result is looked at.
from_psid_AssertsBeforeCopyResult(psid, env) ==
    IF psid.null THEN NoSid("None", <<>>)
    ELSE IF ~IsValidSid(env, psid) THEN NoSid("None", <<"IsValidSid">>)
    ELSE LET length == GetLengthSid(env, psid)
             copy   == CopySid(env, length, ZeroBuffer(length), psid)
             calls  == <<"IsValidSid", "GetLengthSid", "CopySid">>
         IN  IF ~RevisionAsserted(copy.dest) THEN NoSid("Panic", calls)
             ELSE IF ~copy.ok THEN NoSid("None", calls)
             ELSE [outcome |-> "Some", sid |-> copy.dest, calls |-> calls]

from_psid(psid, env) ==
    IF psid.null THEN NoSid("None", <<>>)
    ELSE IF ~IsValidSid(env, psid) THEN NoSid("None", <<"IsValidSid">>)
    ELSE LET length == GetLengthSid(env, psid)
             copy   == CopySid(env, length, ZeroBuffer(length), psid)
             calls  == <<"IsValidSid", "GetLengthSid", "CopySid">>
         IN  IF ~copy.ok THEN NoSid("None", calls)
             ELSE IF ~RevisionAsserted(copy.dest) THEN NoSid("Panic", calls)
             ELSE [outcome |-> "Some", sid |-> copy.dest, calls |-> calls]

(***************************************************************************)
(* <Sid as FromStr>::from_str                                              *)
(***************************************************************************)
\* The NUL takes the place of the last unit instead of following it.
WideNulOverwritesLast(s) ==
    [i \in 1..Len(s) |-> IF i = Len(s) THEN 0 ELSE encode_utf16(s)[i]]

\* s.encode_utf16().collect(), then push(0)
WideNulTerminated(s) == encode_utf16(s) \o <<0>>

\* None becomes an ordinary error.
UnwrappedOrErr(sid, calls) ==
    IF sid.outcome = "None" THEN NoSid("Err", calls)
    ELSE [outcome |-> "Ok", sid |-> sid.sid, calls |-> calls]

\* Ok(sid.unwrap()): a panic on None.
Unwrapped(sid, calls) ==
    IF sid.outcome = "None" THEN NoSid("Panic", calls)
    ELSE [outcome |-> "Ok", sid |-> sid.sid, calls |-> calls]

\* The structure is released before the conversion's result is looked at.
from_str_FreesOnError(s, env) ==
    LET string_sid == WideNulTerminated(s)
        conv       == ConvertStringSidToSidW(env, string_sid)
        sid        == from_psid(PsidTo(conv.mem), env)
        first      == <<"ConvertStringSidToSidW">>
    IN  IF ~conv.ok THEN NoSid("Err", first \o <<"LocalFree">>)
        ELSE IF sid.outcome = "Panic" THEN NoSid("Panic", first \o sid.calls)
        ELSE Unwrapped(sid, first \o sid.calls \o <<"LocalFree">>)

from_str(s, env) ==
    LET string_sid == WideNulTerminated(s)
        conv       == ConvertStringSidToSidW(env, string_sid)
        sid        == from_psid(PsidTo(conv.mem), env)
        first      == <<"ConvertStringSidToSidW">>
    IN  IF ~conv.ok THEN NoSid("Err", first)
        \* from_psid panicked: the unwinding skips the LocalFree that follows
        ELSE IF sid.outcome = "Panic" THEN NoSid("Panic", first \o sid.calls)
        \* LocalFree, then the unwrap
        ELSE Unwrapped(sid, first \o sid.calls \o <<"LocalFree">>)

(***************************************************************************)
(* <Sid as Display>::fmt                                                   *)
(***************************************************************************)
\* The string is released whether or not the conversion produced one.
convert_sid_to_string_sid_FreesAlways(sid, env) ==
    LET conv == ConvertSidToStringSidW(env, sid)
    IN  IF ~conv.ok
        THEN [some |-> FALSE, result |-> <<>>,
              calls |-> <<"ConvertSidToStringSidW", "LocalFree">>]
        ELSE [some |-> TRUE, result |-> to_utf8_str(conv.wide),
              calls |-> <<"ConvertSidToStringSidW", "LocalFree">>]

convert_sid_to_string_sid(sid, env) ==
    LET conv == ConvertSidToStringSidW(env, sid)
    IN  IF ~conv.ok
        THEN [some |-> FALSE, result |-> <<>>, calls |-> <<"ConvertSidToStringSidW">>]
        ELSE [some |-> TRUE, result |-> to_utf8_str(conv.wide),
              calls |-> <<"ConvertSidToStringSidW", "LocalFree">>]

fmt(self, env) ==
    LET string_sid == convert_sid_to_string_sid(self, env)
    IN  IF ~string_sid.some
        THEN [outcome |-> "Err", written |-> FALSE, text |-> <<>>,
              calls |-> string_sid.calls]
        ELSE [outcome |-> "Ok", written |-> TRUE, text |-> string_sid.result,
              calls |-> string_sid.calls]

(***************************************************************************)
(* Sid::account_name_and_domain                                            *)
(***************************************************************************)
NoAccount(outcome, lookups) ==
    [outcome |-> outcome, name |-> <<>>, hasDomain |-> FALSE, domain |-> <<>>,
     lookups |-> lookups]

\* A lookup as the log keeps it: the buffer lengths handed to the platform.
Lookup(nameBuf, domainBuf) == [nameBuf |-> nameBuf, domainBuf |-> domainBuf]

\* Any failure of the probe ends the lookup.
ProbeFailedOnAnyError(probe) == probe.result # "ok"

\* The probe failed, and not with ERROR_INSUFFICIENT_BUFFER.
ProbeFailed(probe) == probe.result = "other"

account_name_and_domain(self, env) ==
    LET probe  == LookupAccountSidW(env, 0, 0, FALSE)
        name   == ZeroBuffer(probe.nameLen)
        domain == ZeroBuffer(probe.domainLen)
        fill   == LookupAccountSidW(env, Len(name), Len(domain), TRUE)
        both   == <<Lookup(0, 0), Lookup(Len(name), Len(domain))>>
        \* to_utf8_str on the pointer of an empty Vec reads memory the Vec does
        \* not own: it finds a NUL at once, or the read faults.
        wild   == \/ Len(name) = 0
                  \/ (fill.domainLen > 1 /\ Len(domain) = 0)
        domain_str == to_utf8_str(fill.domain)
    IN  IF ProbeFailed(probe) THEN NoAccount("None", <<Lookup(0, 0)>>)
        ELSE IF fill.result # "ok" THEN NoAccount("None", both)
        ELSE IF wild /\ env.wildRead = "fault" THEN NoAccount("Crash", both)
        ELSE [outcome   |-> "Some",
              name      |-> to_utf8_str(fill.name),
              hasDomain |-> fill.domainLen > 1 /\ domain_str # <<>>,
              domain    |-> IF fill.domainLen > 1 THEN domain_str ELSE <<>>,
              lookups   |-> both]

(***************************************************************************)
(* #[derive(PartialEq, Eq, PartialOrd, Ord, Hash)] on Sid { sid: Vec<u8> } *)
(***************************************************************************)
\* Vec<u8> == Vec<u8>: the same length and the same bytes.
SidEq(a, b) == Len(a) = Len(b) /\ \A i \in 1..Len(a) : a[i] = b[i]

\* Only the common prefix is compared.
RECURSIVE SidCmpCommonPrefix(_, _)
SidCmpCommonPrefix(a, b) ==
    IF a = <<>> \/ b = <<>> THEN "Equal"
    ELSE IF Head(a) < Head(b) THEN "Less"
    ELSE IF Head(a) > Head(b) THEN "Greater"
    ELSE SidCmpCommonPrefix(Tail(a), Tail(b))

\* Vec<u8>::cmp: lexicographic, a proper prefix being less.
RECURSIVE SidCmp(_, _)
SidCmp(a, b) ==
    IF a = <<>> /\ b = <<>> THEN "Equal"
    ELSE IF a = <<>> THEN "Less"
    ELSE IF b = <<>> THEN "Greater"
    ELSE IF Head(a) < Head(b) THEN "Less"
    ELSE IF Head(a) > Head(b) THEN "Greater"
    ELSE SidCmp(Tail(a), Tail(b))

\* What Hash for Vec<u8> feeds the hasher: the length, then the bytes.
HashFeed(a) == <<Len(a)>> \o a

\* A deterministic Hasher over the fed values (width 16 bits).
RECURSIVE HasherFinish(_)
HasherFinish(feed) ==
    IF feed = <<>> THEN 7
    ELSE (HasherFinish(SubSeq(feed, 1, Len(feed) - 1)) * 31 + feed[Len(feed)]) % 65536

SidHash(a) == HasherFinish(HashFeed(a))

(***************************************************************************)
(* Inputs: native structures, handles, strings, and the platform's         *)
(* scripted answers to each operation.  An answer the operation never asks *)
(* for keeps its default.                                                  *)
(***************************************************************************)
\* S-1-1-0
EveryoneSid == <<1, 1, 0, 0, 0, 0, 0, 1, 0, 0, 0, 0>>
\* S-1-5-32-544
AdministratorsSid == <<1, 2, 0, 0, 0, 0, 0, 5, 32, 0, 0, 0, 32, 2, 0, 0>>
\* A structure whose revision byte is 2.
Revision2Sid == <<2, 1, 0, 0, 0, 0, 0, 1, 0, 0, 0, 0>>

Structures == {EveryoneSid, AdministratorsSid, Revision2Sid}

Handles == {NullPsid} \cup {PsidTo(m) : m \in Structures}

EveryoneStr == <<"S", "-", "1", "-", "1", "-", "0">>
AdministratorsStr == <<"S", "-", "1", "-", "5", "-", "3", "2", "-", "5", "4", "4">>
LocalSystemStr == <<"S", "-", "1", "-", "5", "-", "1", "8">>
PaddedStr == <<"S", "-", "1", "-", "0", "5", "-", "1", "8">>
AuthenticatedUsersStr == <<"S", "-", "1", "-", "5", "-", "1", "1">>
NotASidStr == <<"n", "o", "t", "-", "a", "-", "s", "i", "d">>
Revision2Str == <<"S", "-", "2", "-", "1", "-", "0">>
NoSubAuthorityStr == <<"S", "-", "1", "-", "1">>

InputStrings ==
    {EveryoneStr, AdministratorsStr, LocalSystemStr, PaddedStr,
     AuthenticatedUsersStr, NotASidStr, Revision2Str, NoSubAuthorityStr, <<>>}

\* A scripted platform does not read the string: two stand for all.
ScriptedStrings == {EveryoneStr, NotASidStr}

Strings(documented) == IF documented THEN InputStrings ELSE ScriptedStrings

BaseEnv ==
    [documented |-> FALSE, valid |-> FALSE, length |-> 0, copyOk |-> FALSE,
     conv |-> [ok |-> FALSE, mem |-> <<>>], str |-> [ok |-> FALSE, wide |-> <<>>],
     probe |-> "other", nameLen |-> 0, domainLen |-> 0, fillOk |-> FALSE,
     fillDomainLen |-> 0, wildRead |-> "nul"]

DocumentedEnv == [BaseEnv EXCEPT !.documented = TRUE]

\* The lengths GetLengthSid may report of a structure: its own, one short, none.
LengthChoices(mem) == {n \in {0, Len(mem) - 1, Len(mem)} : n >= 0}

PsidEnvs(psid) ==
    IF psid.null THEN {BaseEnv}
    ELSE {BaseEnv}
         \cup {[BaseEnv EXCEPT !.valid = TRUE, !.length = n, !.copyOk = c] :
                  n \in LengthChoices(psid.mem), c \in BOOLEAN}

StrEnvs ==
    {BaseEnv}
    \cup UNION {{[e EXCEPT !.conv = [ok |-> TRUE, mem |-> m]] : e \in PsidEnvs(PsidTo(m))} :
                   m \in Structures}

FmtEnvs ==
    {BaseEnv}
    \cup {[BaseEnv EXCEPT !.str = [ok |-> TRUE, wide |-> w]] :
             w \in {WideNulTerminated(EveryoneStr), <<0>>}}

\* The probe reports a name and a domain of no or of MaxNameLen units each; a
\* fill that succeeds reports the domain's length with or without its NUL.
AccountEnvs ==
    {BaseEnv}
    \cup {[BaseEnv EXCEPT !.probe = p, !.nameLen = n, !.domainLen = d] :
             p \in {"ok", "insufficient"}, n \in {0, MaxNameLen}, d \in {0, MaxNameLen}}
    \cup {[BaseEnv EXCEPT !.probe = x[1], !.nameLen = x[2], !.domainLen = x[3],
                          !.fillOk = TRUE, !.fillDomainLen = x[4], !.wildRead = x[5]] :
             x \in {y \in {"ok", "insufficient"} \X {0, MaxNameLen} \X {0, MaxNameLen}
                          \X (0..MaxNameLen) \X {"nul", "fault"} :
                       /\ y[4] \in {y[3] - 1, y[3]}
                       /\ y[5] = "fault" => (y[2] = 0 \/ (y[4] > 1 /\ y[3] = 0))}}

Envs(documented, scripted) == IF documented THEN {DocumentedEnv} ELSE scripted

(***************************************************************************)
(* The state: the Sid values alive (each its byte buffer), and the record  *)
(* of the last operation: its arguments, the platform it ran on, its       *)
(* outcome and what it returned, and the platform calls it made.  A        *)
(* from_str whose argument is the text the fmt before it wrote records so  *)
(* (reparse), with the Sid that text was written of.                       *)
(***************************************************************************)
Idle ==
    [op |-> "init", psid |-> NullPsid, str |-> <<>>, self |-> <<>>, other |-> <<>>,
     env |-> BaseEnv, outcome |-> "", sid |-> <<>>, text |-> <<>>,
     written |-> FALSE, calls |-> <<>>, lookups |-> <<>>, name |-> <<>>,
     hasDomain |-> FALSE, domain |-> <<>>, eq |-> FALSE, ord |-> "", hash |-> 0,
     reparse |-> FALSE, of |-> <<>>]

Init ==
    /\ sids = {}
    /\ last = Idle

\* The Sid values alive once an operation has returned r.
Kept(r) == IF r.outcome \in {"Some", "Ok"} THEN sids \cup {r.sid} ELSE sids

FromPsid(documented) ==
    \E psid \in Handles :
      \E env \in Envs(documented, PsidEnvs(psid)) :
        LET r == from_psid(psid, env)
        IN  /\ Cardinality(Kept(r)) <= MaxSids
            /\ sids' = Kept(r)
            /\ last' = [Idle EXCEPT !.op = "from_psid", !.psid = psid, !.env = env,
                                    !.outcome = r.outcome, !.sid = r.sid,
                                    !.calls = r.calls]

\* The strings from_str may be given: a literal, or the text just formatted.
Arguments(documented) ==
    {[str |-> s, reparse |-> FALSE, of |-> <<>>] : s \in Strings(documented)}
    \cup (IF last.op = "fmt" /\ last.outcome = "Ok"
          THEN {[str |-> last.text, reparse |-> TRUE, of |-> last.self]}
          ELSE {})

FromStr(documented) ==
    \E arg \in Arguments(documented) :
      \E env \in Envs(documented, StrEnvs) :
        LET r == from_str(arg.str, env)
        IN  /\ Cardinality(Kept(r)) <= MaxSids
            /\ sids' = Kept(r)
            /\ last' = [Idle EXCEPT !.op = "from_str", !.str = arg.str, !.env = env,
                                    !.reparse = arg.reparse, !.of = arg.of,
                                    !.outcome = r.outcome, !.sid = r.sid,
                                    !.calls = r.calls]

Fmt(documented) ==
    \E self \in sids :
      \E env \in Envs(documented, FmtEnvs) :
        LET r == fmt(self, env)
        IN  /\ sids' = sids
            /\ last' = [Idle EXCEPT !.op = "fmt", !.self = self, !.env = env,
                                    !.outcome = r.outcome, !.text = r.text,
                                    !.written = r.written, !.calls = r.calls]

AccountNameAndDomain ==
    \E self \in sids :
      \E env \in AccountEnvs :
        LET r == account_name_and_domain(self, env)
        IN  /\ sids' = sids
            /\ last' = [Idle EXCEPT !.op = "account_name_and_domain", !.self = self,
                                    !.env = env, !.outcome = r.outcome,
                                    !.name = r.name, !.hasDomain = r.hasDomain,
                                    !.domain = r.domain, !.lookups = r.lookups]

Compare ==
    \E a \in sids, b \in sids :
        /\ sids' = sids
        /\ last' = [Idle EXCEPT !.op = "cmp", !.self = a, !.other = b,
                                !.eq = SidEq(a, b), !.ord = SidCmp(a, b)]

Hash ==
    \E a \in sids :
        /\ sids' = sids
        /\ last' = [Idle EXCEPT !.op = "hash", !.self = a, !.hash = SidHash(a)]

Next ==
    \/ FromPsid(FALSE)
    \/ FromStr(FALSE)
    \/ Fmt(FALSE)
    \/ AccountNameAndDomain
    \/ Compare
    \/ Hash

Spec == Init /\ [][Next]_vars

NextDocumented ==
    \/ FromStr(TRUE)
    \/ Fmt(TRUE)
    \/ Compare
    \/ Hash

SpecDocumented == Init /\ [][NextDocumented]_vars

(***************************************************************************)
(* Properties.                                                             *)
(***************************************************************************)
Count(fn, calls) == Cardinality({i \in 1..Len(calls) : calls[i] = fn})

\* The Sid the last operation returned, if it was a construction that did.
Returned ==
    IF last.op \in {"from_psid", "from_str"} /\ last.outcome \in {"Some", "Ok"}
    THEN {last.sid}
    ELSE {}

\* C1: every Sid there is, kept or just returned by from_psid or from_str, holds
\* a non-empty buffer whose first byte is 1, whatever the platform answered.
C1_RevisionOne ==
    \A s \in sids \cup Returned : Len(s) >= 1 /\ s[1] = 1

\* Two Sids are alive and a from_str has just panicked on a revision-2
\* structure the platform called valid and copied.
C1_Witness ==
    /\ Cardinality(sids) >= 2
    /\ last.op = "from_str"
    /\ last.env.conv = [ok |-> TRUE, mem |-> Revision2Sid]
    /\ last.env.valid /\ last.env.copyOk /\ last.env.length = Len(Revision2Sid)
    /\ last.outcome = "Panic"

\* C2: over the Sids alive, == is equality of the byte sequences, equal Sids
\* hash alike, and the ordering is total, transitive and Equal exactly on ==;
\* a comparison made reports just that.
C2_EqOrdHash ==
    /\ \A a \in sids, b \in sids :
          /\ SidEq(a, b) <=> (a = b)
          /\ SidEq(a, b) => SidHash(a) = SidHash(b)
          /\ SidCmp(a, b) \in {"Less", "Equal", "Greater"}
          /\ (SidCmp(a, b) = "Equal") <=> SidEq(a, b)
          /\ (SidCmp(a, b) = "Less") <=> (SidCmp(b, a) = "Greater")
          /\ \A c \in sids :
                (SidCmp(a, b) = "Less" /\ SidCmp(b, c) = "Less") => SidCmp(a, c) = "Less"
    /\ last.op = "cmp" =>
          /\ last.eq <=> (last.self = last.other)
          /\ (last.ord = "Equal") <=> last.eq

\* Three Sids are alive, and one was just found less than another that it is
\* a proper prefix of.
C2_Witness ==
    /\ Cardinality(sids) = 3
    /\ last.op = "cmp"
    /\ last.ord = "Less"
    /\ Len(last.self) < Len(last.other)
    /\ last.self = SubSeq(last.other, 1, Len(last.self))

\* C3: a from_str whose string the platform converted releases the native
\* structure exactly once, however it ends.
C3_ReleasedOnEveryExit ==
    (last.op = "from_str" /\ last.env.conv.ok) => Count("LocalFree", last.calls) = 1

\* C4: fmt releases the native string exactly once when the conversion to a
\* string succeeded; when it failed, nothing is released, nothing is written
\* and fmt returns the formatting error.
C4_FmtRelease ==
    last.op = "fmt" =>
        /\ last.env.str.ok =>
              /\ Count("LocalFree", last.calls) = 1
              /\ last.outcome = "Ok"
        /\ ~last.env.str.ok =>
              /\ Count("LocalFree", last.calls) = 0
              /\ last.outcome = "Err"
              /\ ~last.written
              /\ last.text = <<>>

\* A fmt whose conversion failed.
C4_Witness ==
    /\ last.op = "fmt"
    /\ ~last.env.str.ok
    /\ last.outcome = "Err"
    /\ last.calls = <<"ConvertSidToStringSidW">>

\* C5: from_psid returns None on a null handle, on a handle the validity check
\* rejects and on a failed copy; in the first two cases before the length is
\* asked or anything copied; and it never releases the handle.
C5_FromPsidNone ==
    last.op = "from_psid" =>
        /\ Count("LocalFree", last.calls) = 0
        /\ (last.psid.null \/ ~last.env.valid) =>
              /\ last.outcome = "None"
              /\ Count("GetLengthSid", last.calls) = 0
              /\ Count("CopySid", last.calls) = 0
        /\ (~last.psid.null /\ last.env.valid /\ ~last.env.copyOk) =>
              last.outcome = "None"

\* A copy that failed into a buffer of no bytes.
C5_Witness ==
    /\ last.op = "from_psid"
    /\ ~last.psid.null /\ last.env.valid /\ ~last.env.copyOk
    /\ last.env.length = 0
    /\ last.outcome = "None"
    /\ Count("CopySid", last.calls) = 1

\* C6: a from_str whose string the platform rejects returns Err, makes no Sid,
\* and calls nothing but the conversion: neither from_psid's calls nor
\* LocalFree.
C6_RejectedString ==
    [][(last'.op = "from_str" /\ ~last'.env.conv.ok) =>
          /\ last'.outcome = "Err"
          /\ last'.sid = <<>>
          /\ sids' = sids
          /\ last'.calls = <<"ConvertStringSidToSidW">>]_vars

\* "not-a-sid" was rejected.
C6_Witness ==
    /\ last.op = "from_str"
    /\ last.str = NotASidStr
    /\ ~last.env.conv.ok
    /\ last.outcome = "Err"

\* C7: from a valid handle to bytes b with b[0] = 1, a reported length of
\* len(b) and a copy that succeeds, from_psid returns the Sid whose buffer is
\* b; and fmt, the account lookup, a comparison and a hash leave every Sid's
\* buffer as it was.
C7_ExactCopy ==
    [][/\ (/\ last'.op = "from_psid"
           /\ ~last'.psid.null
           /\ Len(last'.psid.mem) >= 1 /\ last'.psid.mem[1] = 1
           /\ last'.env.valid /\ last'.env.copyOk
           /\ last'.env.length = Len(last'.psid.mem))
          => (/\ last'.outcome = "Some"
              /\ last'.sid = last'.psid.mem
              /\ last'.sid \in sids')
       /\ last'.op \in {"fmt", "account_name_and_domain", "cmp", "hash"}
          => sids' = sids]_vars

\* The sixteen bytes of S-1-5-32-544 were copied.
C7_Witness ==
    /\ last.op = "from_psid"
    /\ last.psid = PsidTo(AdministratorsSid)
    /\ last.env.valid /\ last.env.copyOk /\ last.env.length = 16
    /\ last.outcome = "Some"
    /\ last.sid = AdministratorsSid

\* C8: the account lookup returns None when the probe fails with anything but
\* insufficient-buffer and when the fill fails; a probe that succeeds or fails
\* with insufficient-buffer is followed by exactly one fill, into buffers of
\* the lengths the probe reported.
C8_AccountNone ==
    last.op = "account_name_and_domain" =>
        /\ last.env.probe = "other" =>
              /\ last.outcome = "None"
              /\ last.lookups = <<Lookup(0, 0)>>
        /\ last.env.probe \in {"ok", "insufficient"} =>
              /\ last.lookups =
                     <<Lookup(0, 0), Lookup(last.env.nameLen, last.env.domainLen)>>
              /\ ~last.env.fillOk => last.outcome = "None"

\* A probe answered insufficient-buffer with lengths, then a fill that failed.
C8_Witness ==
    /\ last.op = "account_name_and_domain"
    /\ last.env.probe = "insufficient"
    /\ last.env.nameLen = MaxNameLen /\ last.env.domainLen = MaxNameLen
    /\ ~last.env.fillOk
    /\ last.outcome = "None"
    /\ Len(last.lookups) = 2

\* C9: on the documented platform every Sid parsed formats, and parsing the
\* text formatted of a Sid gives a Sid equal to it; "S-1-1-0" parses, and the
\* Sid parsed from it formats as "S-1-1-0".
C9_RoundTrip ==
    /\ last.op = "fmt" => last.outcome = "Ok"
    /\ (last.op = "from_str" /\ last.reparse) =>
          /\ last.outcome = "Ok"
          /\ SidEq(last.sid, last.of)
    /\ (last.op = "from_str" /\ last.str = EveryoneStr) => last.outcome = "Ok"
    /\ (last.op = "fmt" /\ last.self = from_str(EveryoneStr, DocumentedEnv).sid) =>
          last.text = EveryoneStr

\* The text formatted of the Sid of S-1-5-32-544 was parsed again.
C9_Witness ==
    /\ last.op = "from_str"
    /\ last.reparse
    /\ last.of = AdministratorsSid
    /\ last.str = AdministratorsStr
    /\ last.outcome = "Ok"
    /\ last.sid = last.of

\* C10: a from_str whose string the platform converted and whose from_psid
\* yields None panics; from_str returns Ok only with a Sid from_psid validated,
\* copied and found of revision 1.
C10_FailFast ==
    last.op = "from_str" =>
        /\ (last.env.conv.ok /\ (~last.env.valid \/ ~last.env.copyOk)) =>
              last.outcome = "Panic"
        /\ last.outcome = "Ok" =>
              /\ last.env.conv.ok /\ last.env.valid /\ last.env.copyOk
              /\ RevisionAsserted(last.sid)

\* The platform converted the string and then called its own structure
\* invalid.
C10_Witness ==
    /\ last.op = "from_str"
    /\ last.env.conv.ok
    /\ ~last.env.valid
    /\ last.outcome = "Panic"
    /\ Count("LocalFree", last.calls) = 1

====
